---- MODULE Spec2Model ----
(***************************************************************************)
(* Model of src/agent/graph.py: the billing-code recommendation graph.     *)
(*                                                                         *)
(* Module-level code builds the co-occurrence model from the historical    *)
(* transaction table; a run of the compiled graph then threads one         *)
(* AgentState through the nodes preprocess, model, validate, clear and     *)
(* add_co_occurrence in the order edge_chain gives.                        *)
(*                                                                         *)
(* Python values are modelled as follows.  A dict is a function whose      *)
(* domain is its set of keys (a record); a list is a sequence; None in a   *)
(* string-valued slot is the reserved string None; a missing catalog       *)
(* record (None, falsy) is the empty dict NoVykon.  A float that the code  *)
(* computes as a quotient of integers is the pair [num, den] of that       *)
(* quotient, NaN being 0/0.                                                *)
(***************************************************************************)
EXTENDS Integers, Sequences, FiniteSets, TLC

VARIABLES
    pc,                          \* the node the run is at, "__end__" or "failed"
    error,                       \* why the run failed ("none" while it has not)
    trace,                       \* history: the nodes entered so far, in order
    calls,                       \* history: the collaborator calls made so far
    schema,                      \* history: the schema the model node built last
    prev,                        \* history: state.diagnosis as the last node received it
    retrieved,                   \* history: the codes of the documents retrieved last
    report,                      \* AgentState.report
    preprocess_diagnosis,        \* AgentState.preprocess_diagnosis
    diagnosis,                   \* AgentState.diagnosis
    validity,                    \* AgentState.validity
    vykony,                      \* the transaction table read at line 44
    vykony_cis,                  \* the billing-code catalog read at line 37
    co_occurrence_df_normalized, \* the co-occurrence model of lines 47-59
    runs,                        \* the AgentState and position of each of two concurrent runs
    answers,                     \* history: what the collaborators answered each of them
    overlapped                   \* history: a run stepped while the other was under way

vars == <<pc, error, trace, calls, schema, prev, retrieved, report, preprocess_diagnosis,
          diagnosis, validity, vykony, vykony_cis, co_occurrence_df_normalized,
          runs, answers, overlapped>>

-----------------------------------------------------------------------------
(* Bounds of the model.                                                     *)

\* rows of the transaction table that repeat one (CDOKL, KOD) pair
MaxRowDup == 1
\* diagnoses the extraction collaborator returns
MaxDiag == 2
\* records the code-selection collaborator returns in a full run
MaxSel == 1
\* verdicts the validation collaborator returns in a full run
MaxVerdicts == 1
\* documents the vector index returns (the code asks for k = 10)
MaxDocs == 1
\* records and verdicts of the lists the reconciler is checked on
MaxRecs == 3
MaxRecVerdicts == 2

\* transaction identifiers and billing codes of the transaction table
CDOKLs == {1, 2}
KODs == {100, 200, 9543, 42022}

None == "None"
NoVykon == << >>

\* all sequences over S of length at most n
RECURSIVE SeqsUpTo(_, _)
SeqsUpTo(S, n) ==
    IF n = 0 THEN {<< >>}
    ELSE LET shorter == SeqsUpTo(S, n - 1)
         IN  shorter \cup {Append(s, x) : s \in {t \in shorter : Len(t) = n - 1}, x \in S}

\* dict.get(k, default)
Get(d, k, default) == IF k \in DOMAIN d THEN d[k] ELSE default

\* {**d, k: v}
With(d, k, v) == [j \in DOMAIN d \cup {k} |-> IF j = k THEN v ELSE d[j]]

\* Python truthiness of an optional string
Truthy(s) == s \notin {None, ""}

RECURSIVE SumOver(_, _)
SumOver(f, S) ==
    IF S = {} THEN 0
    ELSE LET x == CHOOSE y \in S : TRUE
         IN  f[x] + SumOver(f, S \ {x})

SetMin(S) == CHOOSE x \in S : \A y \in S : x <= y
SetMax(S) == CHOOSE x \in S : \A y \in S : x >= y

-----------------------------------------------------------------------------
(* The co-occurrence model, lines 44-59.                                    *)

\* The tables the model reads: tab[<<t, k>>] is the number of rows of the CSV
\* with CDOKL = t and KOD = k.
Tables == [CDOKLs \X KODs -> 0..MaxRowDup]

\* line 47: one row per CDOKL of the table, one column per KOD of the table,
\* each cell the number of rows with that pair (get_dummies, then the sum
\* over the group)
vykony_pivot(tab) ==
    LET index   == {t \in CDOKLs : \E k \in KODs : tab[<<t, k>>] > 0}
        columns == {k \in KODs : \E t \in CDOKLs : tab[<<t, k>>] > 0}
    IN  [t \in index |-> [k \in columns |-> tab[<<t, k>>]]]

PivotColumns(pivot) ==
    IF DOMAIN pivot = {} THEN {}
    ELSE DOMAIN pivot[CHOOSE t \in DOMAIN pivot : TRUE]

\* the product of line 48 without the fill_diagonal of line 49
co_occurrence_df_diagonal_kept(pivot) ==
    LET cols == PivotColumns(pivot)
    IN  [a \in cols |-> [b \in cols |->
            SumOver([t \in DOMAIN pivot |-> pivot[t][a] * pivot[t][b]],
                    DOMAIN pivot)]]

\* lines 48-52: np.dot(pivot.T, pivot), then the diagonal filled with 0;
\* df[a][b] is the cell of row a and column b
co_occurrence_df(pivot) ==
    LET cols == PivotColumns(pivot)
    IN  [a \in cols |-> [b \in cols |->
            IF a = b THEN 0
            ELSE SumOver([t \in DOMAIN pivot |-> pivot[t][a] * pivot[t][b]],
                         DOMAIN pivot)]]

\* DataFrame.min() and DataFrame.max(): one value per column
ColumnMin(df, b) == SetMin({df[a][b] : a \in DOMAIN df})
ColumnMax(df, b) == SetMax({df[a][b] : a \in DOMAIN df})

\* lines 54-56: (df - df.min()) / (df.max() - df.min()); the two Series
\* align on the columns, so every cell is scaled by its own column's range.
\* 0/0 is NaN.
MinMaxScale(df) ==
    [a \in DOMAIN df |-> [b \in DOMAIN df |->
        [num |-> df[a][b] - ColumnMin(df, b),
         den |-> ColumnMax(df, b) - ColumnMin(df, b)]]]

IsNaN(x) == x.num = 0 /\ x.den = 0

\* the normalization without the fillna of line 57
fillna_skipped(df, value) == df

\* line 57: fillna(0, inplace=True)
fillna(df, value) ==
    [a \in DOMAIN df |-> [b \in DOMAIN df |->
        IF IsNaN(df[a][b]) THEN [num |-> value, den |-> 1] ELSE df[a][b]]]

\* lines 47-59 as a whole; reset_index and rename turn the index into the
\* column "kod", which leaves the cells as they are
BuildCoOccurrence(tab) ==
    fillna(MinMaxScale(co_occurrence_df(vykony_pivot(tab))), 0)

\* the cell of row a ("kod" = a) and column b
strength(a, b) == co_occurrence_df_normalized[a][b]

\* comparisons of quotients with a positive denominator
RatEq(x, y) == x.num * y.den = y.num * x.den
RatGeq(x, n, d) == x.num * d >= n * x.den

-----------------------------------------------------------------------------
(* The reference catalogs and the candidate mapper (agent.utils).           *)

\* data/ciselniky/vykon.jsonl as loaded at lines 37-38
Catalog ==
    << [code |-> 100,   name |-> "Vysetreni",    description |-> "d100"],
       [code |-> 9543,  name |-> "Consultation", description |-> None],
       [code |-> 42022, name |-> "Kontrola",     description |-> None] >>

\* utils.find_vykon_by_code: the catalog record of the code, or None
find_vykon_by_code(code) ==
    IF \E i \in DOMAIN vykony_cis : vykony_cis[i].code = code
    THEN vykony_cis[CHOOSE i \in DOMAIN vykony_cis :
            /\ vykony_cis[i].code = code
            /\ \A j \in 1..(i - 1) : vykony_cis[j].code # code]
    ELSE NoVykon

\* the diagnoses the extraction collaborator may name
Diagnoses ==
    { [code |-> "E11", description |-> "Diabetes"],
      [code |-> "C50", description |-> "Neoplasm"],
      [code |-> "Z00", description |-> "Examination"] }

\* utils.get_vykony_per_diagnosis: the billing codes associated with a
\* diagnosis, in source order; empty when the diagnosis has no association
get_vykony_per_diagnosis(item) ==
    IF item.code = "E11" THEN << Catalog[2] >>
    ELSE IF item.code = "C50" THEN << Catalog[2], Catalog[1] >>
    ELSE << >>

RECURSIVE Concat(_)
Concat(seqs) ==
    IF seqs = << >> THEN << >> ELSE Head(seqs) \o Concat(Tail(seqs))

\* lines 200-202 and 277-279
suggested_vykony(pd) ==
    LET codes == Get(pd, "codes", << >>)
    IN  Concat([i \in DOMAIN codes |-> get_vykony_per_diagnosis(codes[i])])

-----------------------------------------------------------------------------
(* The schema of the model node, lines 204-249.                             *)

\* str(code) for a code >= 0: its decimal digits
RECURSIVE str(_)
str(n) == IF n < 10 THEN << n >> ELSE Append(str(n \div 10), n % 10)

\* lines 206-231: the definition add_code returns for one candidate, under
\* the key str(code)
add_code(code, name, description) ==
    [ key        |-> str(code),
      properties |-> IF Truthy(description)
                     THEN [code |-> code, name |-> name, description |-> description]
                     ELSE [code |-> code, name |-> name],
      required   |-> IF Truthy(description)
                     THEN {"code", "name", "description"}
                     ELSE {"code", "name"} ]

\* lines 233-249: definitions is the reduce over the candidates, a later
\* candidate replacing an earlier one under the same key; code_refs has one
\* {"$ref": "#/definitions/<key>"} per call of add_code, in call order
build_schema(candidates) ==
    LET defs == [i \in DOMAIN candidates |->
                    add_code(candidates[i].code, candidates[i].name,
                             candidates[i].description)]
        keys == {defs[i].key : i \in DOMAIN defs}
        last(k) == SetMax({i \in DOMAIN defs : defs[i].key = k})
    IN  [ definitions |-> [k \in keys |-> defs[last(k)]],
          code_refs   |-> [i \in DOMAIN defs |-> defs[i].key],
          minItems    |-> 1 ]

\* the schema enumerating the whole catalog instead of the candidates
model_schema_catalog(pd) == build_schema(vykony_cis)

\* lines 200-249: the schema of the candidates of the extracted diagnoses
model_schema(pd) == build_schema(suggested_vykony(pd))

NoSchema == [definitions |-> << >>, code_refs |-> << >>, minItems |-> 0]

\* an object validates against a definition: every required key is present
\* and every present property equals its const
ValidatesDefinition(item, def) ==
    /\ \A k \in def.required : k \in DOMAIN item
    /\ \A k \in DOMAIN def.properties \cap DOMAIN item : item[k] = def.properties[k]

\* an item of vykony validates against {"anyOf": code_refs}
ValidatesItem(item, sch) ==
    \E i \in DOMAIN sch.code_refs :
        /\ sch.code_refs[i] \in DOMAIN sch.definitions
        /\ ValidatesDefinition(item, sch.definitions[sch.code_refs[i]])

-----------------------------------------------------------------------------
(* The reconciliation of validate, lines 326-334.                           *)

NoVerdict == << >>

\* the lookup taking the last verdict of the code
last_verdict(verdicts, code) ==
    IF \E i \in DOMAIN verdicts : verdicts[i].code = code
    THEN verdicts[CHOOSE i \in DOMAIN verdicts :
            /\ verdicts[i].code = code
            /\ \A j \in (i + 1)..Len(verdicts) : verdicts[j].code # code]
    ELSE << >>

\* line 328: next((v for v in validation.vykony if v.code == code), None)
first_verdict(verdicts, code) ==
    IF \E i \in DOMAIN verdicts : verdicts[i].code = code
    THEN verdicts[CHOOSE i \in DOMAIN verdicts :
            /\ verdicts[i].code = code
            /\ \A j \in 1..(i - 1) : verdicts[j].code # code]
    ELSE NoVerdict

\* validate dropping a record that has no verdict
RECURSIVE validate_fail_closed(_, _)
validate_fail_closed(vyk, verdicts) ==
    IF vyk = << >> THEN << >>
    ELSE LET vykon == Head(vyk)
             v     == first_verdict(verdicts, vykon.code)
             rest  == validate_fail_closed(Tail(vyk), verdicts)
         IN  IF v # NoVerdict /\ v.action # "remove"
             THEN << With(vykon, "explanation", v.explanation) >> \o rest
             ELSE rest

\* validate keeping a record whatever its verdict
RECURSIVE validate_keep_all(_, _)
validate_keep_all(vyk, verdicts) ==
    IF vyk = << >> THEN << >>
    ELSE LET vykon == Head(vyk)
             v     == first_verdict(verdicts, vykon.code)
         IN  << With(vykon, "explanation",
                     IF v = NoVerdict THEN None ELSE v.explanation) >>
                 \o validate_keep_all(Tail(vyk), verdicts)

\* lines 326-332
RECURSIVE validate_new_vykony(_, _)
validate_new_vykony(vyk, verdicts) ==
    IF vyk = << >> THEN << >>
    ELSE LET vykon == Head(vyk)
             v     == first_verdict(verdicts, vykon.code)
             rest  == validate_new_vykony(Tail(vyk), verdicts)
         IN  IF v = NoVerdict
             THEN << With(vykon, "explanation", None) >> \o rest
             ELSE IF v.action # "remove"
             THEN << With(vykon, "explanation", v.explanation) >> \o rest
             ELSE rest

-----------------------------------------------------------------------------
(* The identity dedup of clear, lines 365-370.                              *)

\* lines 366-369: every record whose code resolves, as its catalog record
\* with the record's explanation
RECURSIVE clear_resolved(_)
clear_resolved(vyk) ==
    IF vyk = << >> THEN << >>
    ELSE LET v     == Head(vyk)
             valid == find_vykon_by_code(v.code)
         IN  IF valid # NoVykon
             THEN << With(valid, "explanation", Get(v, "explanation", None)) >>
                      \o clear_resolved(Tail(vyk))
             ELSE clear_resolved(Tail(vyk))

\* the dedup returning its records last-first
dict_values_reversed(vyk) ==
    LET codes == {vyk[i].code : i \in DOMAIN vyk}
        RECURSIVE walk(_, _)
        walk(i, seen) ==
            IF i = 0 THEN << >>
            ELSE IF vyk[i].code \in seen THEN walk(i - 1, seen)
            ELSE << vyk[i] >> \o walk(i - 1, seen \cup {vyk[i].code})
    IN  walk(Len(vyk), {})

\* the dedup keeping a code where it occurs last
dict_values_last_position(vyk) ==
    LET lasts == {i \in DOMAIN vyk : \A j \in (i + 1)..Len(vyk) : vyk[j].code # vyk[i].code}
        RECURSIVE walk(_)
        walk(i) == IF i > Len(vyk) THEN << >>
                   ELSE IF i \in lasts THEN << vyk[i] >> \o walk(i + 1)
                   ELSE walk(i + 1)
    IN  walk(1)

\* line 370: list({int(v["code"]): v for v in vykony}.values()); a dict
\* keeps a key where it was first inserted and holds the value assigned last
dict_values_by_code(vyk) ==
    LET firsts == {i \in DOMAIN vyk : \A j \in 1..(i - 1) : vyk[j].code # vyk[i].code}
        last(i) == SetMax({j \in DOMAIN vyk : vyk[j].code = vyk[i].code})
        RECURSIVE walk(_)
        walk(i) == IF i > Len(vyk) THEN << >>
                   ELSE IF i \in firsts THEN << vyk[last(i)] >> \o walk(i + 1)
                   ELSE walk(i + 1)
    IN  walk(1)

\* clear without the dedup of line 370
clear_without_dedup(vyk) == clear_resolved(vyk)

clear_vykony(vyk) == dict_values_by_code(clear_resolved(vyk))

-----------------------------------------------------------------------------
(* The augmentation of add_co_occurrence, lines 345-359.                    *)

\* line 348: the trigger codes
PivotCodes == {42022, 9543}

\* line 349: the threshold 0.6
ThresholdNum == 6
ThresholdDen == 10

\* the rows of the trigger codes, whatever their cell
rows_ignoring_threshold(code) == DOMAIN co_occurrence_df_normalized \cap PivotCodes

\* lines 347-349: the rows of column `code` whose kod is a trigger code and
\* whose cell is at least the threshold
rows_over_threshold(code) ==
    {kod \in DOMAIN co_occurrence_df_normalized \cap PivotCodes :
        RatGeq(strength(kod, code), ThresholdNum, ThresholdDen)}

\* lines 345-354: set(to_add_codes), the kod of every such row over all the
\* retrieved documents (the sort of line 350 orders a list that is read
\* only as a set)
to_add_codes(docs) ==
    UNION {rows_over_threshold(docs[i]) : i \in DOMAIN docs}

\* the found records appended to a fresh list, the received one forgotten
RECURSIVE append_found_fresh(_, _)
append_found_fresh(new_vykony, order) ==
    IF order = << >> THEN << >>
    ELSE LET found_vykon == find_vykon_by_code(Head(order))
         IN  (IF found_vykon # NoVykon THEN << found_vykon >> ELSE << >>)
                 \o append_found_fresh(new_vykony, Tail(order))

\* lines 356-359 for one iteration order of the set
RECURSIVE append_found(_, _)
append_found(new_vykony, order) ==
    IF order = << >> THEN new_vykony
    ELSE LET found_vykon == find_vykon_by_code(Head(order))
         IN  append_found(IF found_vykon # NoVykon
                          THEN Append(new_vykony, found_vykon)
                          ELSE new_vykony,
                          Tail(order))

\* the orders in which a set can be iterated
Orders(S) ==
    {o \in SeqsUpTo(S, Cardinality(S)) :
        Len(o) = Cardinality(S) /\ \A i, j \in DOMAIN o : i # j => o[i] # o[j]}

\* line 346 raises KeyError on a DataFrame built from no document, line 347
\* on a document whose code is no column of the co-occurrence model
augment_raises(docs) ==
    \/ docs = << >>
    \/ \E i \in DOMAIN docs : docs[i] \notin DOMAIN co_occurrence_df_normalized

-----------------------------------------------------------------------------
(* The graph, lines 375-396, and the inputs of a run.                       *)

\* lines 384-392
edge_chain ==
    << "__start__", "preprocess", "model", "validate", "clear", "add_co_occurrence" >>

\* lines 393-394: the node the edge from `node` leads to; a node with no
\* outgoing edge ends the run
Successor(node) ==
    IF \E i \in 1..(Len(edge_chain) - 1) : edge_chain[i] = node
    THEN edge_chain[(CHOOSE i \in 1..(Len(edge_chain) - 1) : edge_chain[i] = node) + 1]
    ELSE "__end__"

\* a failed call swallowed, the run going on to the next node
AbortTarget_continue(node) == Successor(node)

\* an exception raised in a node leaves the graph: nothing catches it and
\* no node is added with a retry policy
AbortTarget(node) == "failed"

\* the external call a node awaits
CollaboratorOf ==
    [ preprocess        |-> "extract",
      model             |-> "select",
      validate          |-> "validate",
      add_co_occurrence |-> "search" ]

Reports == {"report"}

\* what the code-selection collaborator may put into vykony: the two
\* catalogued candidates as the schema words them, and a code of no catalog
LLMRecords ==
    { [code |-> 9543, name |-> "Consultation"],
      [code |-> 100,  name |-> "Vysetreni", description |-> "d100"],
      [code |-> 7,    name |-> "Neznamy"] }

\* what the validation collaborator may answer
Verdicts ==
    [code : {9543, 100}, explanation : {"e1", "e2"}, action : {"keep", "remove"}]
RunVerdicts == {v \in Verdicts : v.explanation = "e1"}

\* the codes of the documents the vector index may return
AnchorCodes == {100, 42022}

\* the table with one row for each of the given (CDOKL, KOD) pairs
Table(rows) == [p \in CDOKLs \X KODs |-> IF p \in rows THEN 1 ELSE 0]

\* the tables of the full runs: one with graded strengths in column 100,
\* one where code 100 is billed alone, one where it is not billed at all
RunTables ==
    { Table({<<1, 100>>, <<1, 9543>>, <<1, 42022>>, <<2, 100>>, <<2, 9543>>}),
      Table({<<1, 100>>, <<2, 9543>>, <<2, 42022>>}),
      Table({<<1, 9543>>, <<1, 42022>>}) }

-----------------------------------------------------------------------------
(* The actions.                                                             *)

\* lines 37-59: the module is loaded
load_module ==
    /\ UNCHANGED <<runs, answers, overlapped>>
    /\ pc = "__import__"
    /\ vykony_cis' = Catalog
    /\ co_occurrence_df_normalized' = BuildCoOccurrence(vykony)
    /\ pc' = Successor("__start__")
    /\ UNCHANGED <<error, trace, calls, schema, prev, retrieved, report,
                   preprocess_diagnosis, diagnosis, validity, vykony>>

\* lines 151-180, the collaborator answering `codes`
preprocess(codes) ==
    /\ UNCHANGED <<runs, answers, overlapped>>
    /\ pc = "preprocess"
    /\ trace' = Append(trace, "preprocess")
    /\ calls' = Append(calls, CollaboratorOf["preprocess"])
    /\ prev' = diagnosis
    /\ preprocess_diagnosis' = [codes |-> codes]
    /\ pc' = Successor("preprocess")
    /\ UNCHANGED <<error, schema, retrieved, report, diagnosis, validity, vykony,
                   vykony_cis, co_occurrence_df_normalized>>

\* lines 196-271, the collaborator answering `answer`
model(answer) ==
    /\ UNCHANGED <<runs, answers, overlapped>>
    /\ pc = "model"
    /\ trace' = Append(trace, "model")
    /\ schema' = model_schema(preprocess_diagnosis)
    /\ calls' = Append(calls, CollaboratorOf["model"])
    /\ prev' = diagnosis
    /\ diagnosis' = answer
    /\ pc' = Successor("model")
    /\ UNCHANGED <<error, retrieved, report, preprocess_diagnosis, validity, vykony,
                   vykony_cis, co_occurrence_df_normalized>>

\* lines 274-334, the collaborator answering `verdicts`
validate(verdicts) ==
    /\ UNCHANGED <<runs, answers, overlapped>>
    /\ pc = "validate"
    /\ trace' = Append(trace, "validate")
    /\ calls' = Append(calls, CollaboratorOf["validate"])
    /\ prev' = diagnosis
    /\ diagnosis' = [vykony |-> validate_new_vykony(Get(diagnosis, "vykony", << >>),
                                                    verdicts)]
    /\ validity' = [vykony |-> verdicts]
    /\ pc' = Successor("validate")
    /\ UNCHANGED <<error, schema, retrieved, report, preprocess_diagnosis, vykony,
                   vykony_cis, co_occurrence_df_normalized>>

\* lines 364-372
clear ==
    /\ UNCHANGED <<runs, answers, overlapped>>
    /\ pc = "clear"
    /\ trace' = Append(trace, "clear")
    /\ prev' = diagnosis
    /\ diagnosis' = [vykony |-> clear_vykony(Get(diagnosis, "vykony", << >>))]
    /\ pc' = Successor("clear")
    /\ UNCHANGED <<error, calls, schema, retrieved, report, preprocess_diagnosis,
                   validity, vykony, vykony_cis, co_occurrence_df_normalized>>

\* lines 337-361, the vector index answering documents with the codes
\* `docs` and the set of line 357 iterating in `order`
add_co_occurrence(docs, order) ==
    /\ UNCHANGED <<runs, answers, overlapped>>
    /\ pc = "add_co_occurrence"
    /\ trace' = Append(trace, "add_co_occurrence")
    /\ calls' = Append(calls, CollaboratorOf["add_co_occurrence"])
    /\ prev' = diagnosis
    /\ retrieved' = docs
    /\ IF augment_raises(docs)
       THEN /\ order = << >>
            /\ error' = "KeyError"
            /\ pc' = AbortTarget("add_co_occurrence")
            /\ UNCHANGED diagnosis
       ELSE /\ order \in Orders(to_add_codes(docs))
            /\ diagnosis' = [vykony |-> append_found(Get(diagnosis, "vykony", << >>),
                                                     order)]
            /\ pc' = Successor("add_co_occurrence")
            /\ UNCHANGED error
    /\ UNCHANGED <<schema, report, preprocess_diagnosis, validity, vykony, vykony_cis,
                   co_occurrence_df_normalized>>

\* the call a node awaits (lines 167, 258, 293, 338) raises
raises(node) ==
    /\ UNCHANGED <<runs, answers, overlapped>>
    /\ pc = node
    /\ node \in DOMAIN CollaboratorOf
    /\ trace' = Append(trace, node)
    /\ schema' = IF node = "model" THEN model_schema(preprocess_diagnosis) ELSE schema
    /\ calls' = Append(calls, CollaboratorOf[node])
    /\ prev' = diagnosis
    /\ error' = "collaborator"
    /\ pc' = AbortTarget(node)
    /\ UNCHANGED <<retrieved, report, preprocess_diagnosis, diagnosis, validity, vykony,
                   vykony_cis, co_occurrence_df_normalized>>

-----------------------------------------------------------------------------
(* The specifications.                                                      *)

\* the process before the module is loaded, reading one of `tables`
InitWith(tables) ==
    /\ pc = "__import__"
    /\ error = "none"
    /\ trace = << >>
    /\ calls = << >>
    /\ schema = NoSchema
    /\ prev = << >>
    /\ retrieved = << >>
    /\ report \in Reports
    /\ preprocess_diagnosis = << >>
    /\ diagnosis = << >>
    /\ validity = << >>
    /\ vykony \in tables
    /\ vykony_cis = << >>
    /\ co_occurrence_df_normalized = << >>
    /\ runs = << >>
    /\ answers = << >>
    /\ overlapped = FALSE

\* a full run of the graph
Init == InitWith(RunTables)

Next ==
    \/ load_module
    \/ \E codes \in SeqsUpTo(Diagnoses, MaxDiag) : preprocess(codes)
    \/ \E l \in SeqsUpTo(LLMRecords, MaxSel) : model([vykony |-> l])
    \/ \E verdicts \in SeqsUpTo(RunVerdicts, MaxVerdicts) : validate(verdicts)
    \/ clear
    \/ \E docs \in SeqsUpTo(AnchorCodes, MaxDocs) :
          \E order \in SeqsUpTo(PivotCodes, Cardinality(PivotCodes)) :
              add_co_occurrence(docs, order)
    \/ \E node \in DOMAIN CollaboratorOf : raises(node)

Spec == Init /\ [][Next]_vars

\* the load of the module over every transaction table
InitCo == InitWith(Tables)

NextCo == load_module

SpecCo == InitCo /\ [][NextCo]_vars

\* the reconciler: validate and clear over the lists a code-selection answer
\* can hold
InitRec ==
    /\ pc = "validate"
    /\ error = "none"
    /\ trace = << "preprocess", "model" >>
    /\ calls = << "extract", "select" >>
    /\ preprocess_diagnosis = [codes |-> << >>]
    /\ schema = model_schema(preprocess_diagnosis)
    /\ prev = << >>
    /\ retrieved = << >>
    /\ report \in Reports
    /\ \E l \in SeqsUpTo(LLMRecords, MaxRecs) : diagnosis = [vykony |-> l]
    /\ validity = << >>
    /\ vykony \in {Table({<<1, 9543>>, <<1, 42022>>})}
    /\ vykony_cis = Catalog
    /\ co_occurrence_df_normalized = BuildCoOccurrence(vykony)
    /\ runs = << >>
    /\ answers = << >>
    /\ overlapped = FALSE

NextRec ==
    \/ \E verdicts \in SeqsUpTo(Verdicts, MaxRecVerdicts) : validate(verdicts)
    \/ clear

SpecRec == InitRec /\ [][NextRec]_vars

-----------------------------------------------------------------------------
(* Two runs of the graph in one process.  Each invocation of the compiled   *)
(* graph (line 396) has an AgentState of its own, handed from node to node; *)
(* the catalogs and the co-occurrence model (lines 37-59) are module-level *)
(* and read by both.  A step of a run is one node, run between two awaits.  *)

RunIds == {1, 2}

\* the report each run is invoked with
ReportOf(r) == IF r = 1 THEN "report 1" ELSE "report 2"

\* the state a run enters the graph with
StartState(r) ==
    [ pc                   |-> Successor("__start__"),
      report               |-> ReportOf(r),
      preprocess_diagnosis |-> << >>,
      diagnosis            |-> << >>,
      validity             |-> << >> ]

\* lines 151-180 as a function of the state the node receives
preprocess_of(state, codes) ==
    [state EXCEPT !.preprocess_diagnosis = [codes |-> codes],
                  !.pc = Successor("preprocess")]

\* lines 196-271
model_of(state, answer) ==
    [state EXCEPT !.diagnosis = answer,
                  !.pc = Successor("model")]

\* lines 274-334
validate_of(state, verdicts) ==
    [state EXCEPT !.diagnosis = [vykony |-> validate_new_vykony(
                                     Get(state.diagnosis, "vykony", << >>), verdicts)],
                  !.validity = [vykony |-> verdicts],
                  !.pc = Successor("validate")]

\* lines 364-372
clear_of(state) ==
    [state EXCEPT !.diagnosis = [vykony |-> clear_vykony(
                                     Get(state.diagnosis, "vykony", << >>))],
                  !.pc = Successor("clear")]

\* lines 337-361
add_co_occurrence_of(state, docs, order) ==
    IF augment_raises(docs)
    THEN [state EXCEPT !.pc = AbortTarget("add_co_occurrence")]
    ELSE [state EXCEPT !.diagnosis = [vykony |-> append_found(
                                          Get(state.diagnosis, "vykony", << >>), order)],
                       !.pc = Successor("add_co_occurrence")]

\* one state object handed to the nodes of both runs
StateOf_shared(r) == runs[1]

\* the state a node of run r receives: the run's own
StateOf(r) == runs[r]

\* what the collaborators may answer the two runs
ParCodes      == {<< "E11" >>, << "C50" >>}
ParSelections == {[vykony |-> l] : l \in SeqsUpTo(LLMRecords, 1)}
ParVerdicts   == { << >>,
                   << [code |-> 100, explanation |-> "e1", action |-> "remove"] >> }
ParDocs       == {<< >>, << 100 >>, << 42022 >>}

NoAnswers ==
    [codes |-> << >>, selection |-> << >>, verdicts |-> << >>,
     docs |-> << >>, order |-> << >>]

UnderWay(r) == runs[r].pc \notin {Successor("__start__"), "__end__", "failed"}

\* run r executes the node `node`, which turns its state into `state`
step(r, node, state) ==
    /\ StateOf(r).pc = node
    /\ runs' = [runs EXCEPT ![r] = state]
    /\ overlapped' = (overlapped \/ \E o \in RunIds \ {r} : UnderWay(o))
    /\ UNCHANGED <<pc, error, trace, calls, schema, prev, retrieved, report,
                   preprocess_diagnosis, diagnosis, validity, vykony, vykony_cis,
                   co_occurrence_df_normalized>>

run_preprocess(r, codes) ==
    /\ step(r, "preprocess", preprocess_of(StateOf(r), codes))
    /\ answers' = [answers EXCEPT ![r].codes = codes]

run_model(r, answer) ==
    /\ step(r, "model", model_of(StateOf(r), answer))
    /\ answers' = [answers EXCEPT ![r].selection = answer]

run_validate(r, verdicts) ==
    /\ step(r, "validate", validate_of(StateOf(r), verdicts))
    /\ answers' = [answers EXCEPT ![r].verdicts = verdicts]

run_clear(r) ==
    /\ step(r, "clear", clear_of(StateOf(r)))
    /\ UNCHANGED answers

run_add_co_occurrence(r, docs, order) ==
    /\ IF augment_raises(docs)
       THEN order = << >>
       ELSE order \in Orders(to_add_codes(docs))
    /\ step(r, "add_co_occurrence", add_co_occurrence_of(StateOf(r), docs, order))
    /\ answers' = [answers EXCEPT ![r].docs = docs, ![r].order = order]

\* the loaded process, two runs invoked
InitPar ==
    /\ pc = "__end__"
    /\ error = "none"
    /\ trace = << >>
    /\ calls = << >>
    /\ schema = NoSchema
    /\ prev = << >>
    /\ retrieved = << >>
    /\ report \in Reports
    /\ preprocess_diagnosis = << >>
    /\ diagnosis = << >>
    /\ validity = << >>
    /\ vykony = Table({<<1, 100>>, <<1, 9543>>, <<1, 42022>>, <<2, 100>>, <<2, 9543>>})
    /\ vykony_cis = Catalog
    /\ co_occurrence_df_normalized = BuildCoOccurrence(vykony)
    /\ runs = [r \in RunIds |-> StartState(r)]
    /\ answers = [r \in RunIds |-> NoAnswers]
    /\ overlapped = FALSE

NextPar ==
    \E r \in RunIds :
        \/ \E codes \in ParCodes : run_preprocess(r, codes)
        \/ \E answer \in ParSelections : run_model(r, answer)
        \/ \E verdicts \in ParVerdicts : run_validate(r, verdicts)
        \/ run_clear(r)
        \/ \E docs \in ParDocs :
              \E order \in SeqsUpTo(PivotCodes, Cardinality(PivotCodes)) :
                  run_add_co_occurrence(r, docs, order)

SpecPar == InitPar /\ [][NextPar]_vars

-----------------------------------------------------------------------------
(* Vocabulary of the properties.                                            *)

Range(seq) == {seq[i] : i \in DOMAIN seq}
Last(seq) == seq[Len(seq)]
Entered(node) == node \in Range(trace)
JustRan(node) == trace # << >> /\ Last(trace) = node
Vykony(d) == Get(d, "vykony", << >>)
CodesOf(vyk) == {vyk[i].code : i \in DOMAIN vyk}
Occurrences(vyk, code) == Cardinality({i \in DOMAIN vyk : vyk[i].code = code})
NoDuplicateCodes(vyk) == \A i, j \in DOMAIN vyk : vyk[i].code = vyk[j].code => i = j
IsPrefix(s, t) == Len(s) <= Len(t) /\ \A i \in DOMAIN s : s[i] = t[i]
NodeOrder == Tail(edge_chain)

-----------------------------------------------------------------------------
(* C1 *)

\* C1: when a run has ended, no two records of diagnosis.vykony have the
\* same code.
C1_FinalListHasNoDuplicateCode ==
    pc = "__end__" => NoDuplicateCodes(Vykony(diagnosis))

-----------------------------------------------------------------------------
(* C2 *)

\* C2: the nodes are entered once each in the order preprocess, model,
\* validate, clear, add_co_occurrence; a run stops short of the end only
\* when a collaborator call failed, and at the end every node has run.
C2_FixedOrderToEnd ==
    /\ IsPrefix(trace, NodeOrder)
    /\ pc = "failed" => error = "collaborator"
    /\ pc = "__end__" => trace = NodeOrder

-----------------------------------------------------------------------------
(* C3 *)

\* C3: after validate, every record it received whose code has no verdict
\* in the verdict list is in diagnosis.vykony, unchanged but for an
\* explanation of None.
C3_FailOpenKeep ==
    JustRan("validate") /\ pc = Successor("validate") =>
        \A i \in DOMAIN Vykony(prev) :
            LET vykon == Vykony(prev)[i]
            IN  (\A k \in DOMAIN validity.vykony : validity.vykony[k].code # vykon.code)
                => \E j \in DOMAIN Vykony(diagnosis) :
                      LET kept == Vykony(diagnosis)[j]
                      IN  /\ kept.explanation = None
                          /\ DOMAIN kept = DOMAIN vykon \cup {"explanation"}
                          /\ \A key \in DOMAIN vykon : kept[key] = vykon[key]

\* validate ran on a list of which one code has a verdict to remove and
\* another code has no verdict, the verdict list not being empty
C3_Witness ==
    /\ JustRan("validate") /\ pc = Successor("validate")
    /\ \E i, j \in DOMAIN Vykony(prev) :
          /\ \A k \in DOMAIN validity.vykony :
                validity.vykony[k].code # Vykony(prev)[i].code
          /\ \E k \in DOMAIN validity.vykony :
                /\ validity.vykony[k].code = Vykony(prev)[j].code
                /\ validity.vykony[k].action = "remove"

-----------------------------------------------------------------------------
(* C4 *)

\* C4: once the model node has run on an empty candidate list, the
\* code-selection collaborator has not been called, no schema without an
\* alternative has been built, the selection is empty and the run has not
\* failed.
C4_EmptyCandidateShortCircuit ==
    Entered("model") /\ suggested_vykony(preprocess_diagnosis) = << >> =>
        /\ CollaboratorOf["model"] \notin Range(calls)
        /\ schema = NoSchema
        /\ Vykony(diagnosis) = << >>
        /\ pc # "failed"

-----------------------------------------------------------------------------
(* C5 *)

AtLeastThreshold(x) == 10 * x.num >= 6 * x.den

\* some retrieved anchor has a strength of at least 0.6 with the trigger code p
TriggerQualifies(p) ==
    /\ p \in DOMAIN co_occurrence_df_normalized
    /\ \E i \in DOMAIN retrieved : AtLeastThreshold(strength(p, retrieved[i]))

-----------------------------------------------------------------------------
(* C6 *)

Loaded == pc # "__import__"

\* C6: in the loaded co-occurrence model, strength(a, b) equals
\* strength(b, a) for every two codes.
C6_Symmetric ==
    Loaded =>
        \A a, b \in DOMAIN co_occurrence_df_normalized :
            RatEq(strength(a, b), strength(b, a))

-----------------------------------------------------------------------------
(* C7 *)

\* C7: in the loaded co-occurrence model every strength is a number
\* between 0 and 1, and it is 0 throughout a column whose minimum equals its
\* maximum.
C7_Range ==
    Loaded =>
        LET raw == co_occurrence_df(vykony_pivot(vykony))
        IN  /\ DOMAIN co_occurrence_df_normalized = DOMAIN raw
            /\ \A a, b \in DOMAIN raw :
                  /\ DOMAIN co_occurrence_df_normalized[a] = DOMAIN raw
                  /\ strength(a, b).den > 0
                  /\ 0 <= strength(a, b).num
                  /\ strength(a, b).num <= strength(a, b).den
                  /\ (\A c, d \in DOMAIN raw : raw[c][b] = raw[d][b])
                        => strength(a, b).num = 0

\* a loaded model over several codes with a column of equal counts, which
\* the normalization divides by zero, beside a column that holds a positive
\* strength
C7_Witness ==
    /\ Loaded
    /\ LET raw == co_occurrence_df(vykony_pivot(vykony))
       IN  /\ Cardinality(DOMAIN raw) > 2
           /\ \E b \in DOMAIN raw :
                 /\ \A c, d \in DOMAIN raw : raw[c][b] = raw[d][b]
                 /\ \A a \in DOMAIN raw : IsNaN(MinMaxScale(raw)[a][b])
           /\ \E a, b \in DOMAIN raw : strength(a, b).num > 0

-----------------------------------------------------------------------------
(* C8 *)

\* the objects tried against the schema: every code of the model under
\* every name, without and with a description
SchemaItems ==
    LET codes == {7, 100, 9543, 42022}
        names == {"Vysetreni", "Consultation", "Kontrola", "Neznamy"}
    IN  [code : codes, name : names]
        \cup [code : codes, name : names, description : {"d100", "other"}]

\* C8: every object that validates against the schema the model node built
\* carries the code of one of the candidates the schema was built from.
C8_SchemaContainment ==
    Entered("model") =>
        \A item \in SchemaItems :
            ValidatesItem(item, schema)
                => item.code \in CodesOf(suggested_vykony(preprocess_diagnosis))

\* the model node built a schema that some object validates against, from
\* candidates that leave out a code of the catalog
C8_Witness ==
    /\ Entered("model")
    /\ \E item \in SchemaItems : ValidatesItem(item, schema)
    /\ \E i \in DOMAIN vykony_cis :
          vykony_cis[i].code \notin CodesOf(suggested_vykony(preprocess_diagnosis))

-----------------------------------------------------------------------------
(* C9 *)

\* C9: the list clear returned is a fixed point of the dedup: clear applied
\* to it returns it, records, order and explanations alike.
C9_DedupIdempotent ==
    JustRan("clear") =>
        /\ clear_vykony(clear_vykony(Vykony(prev))) = clear_vykony(Vykony(prev))
        /\ clear_vykony(Vykony(diagnosis)) = Vykony(diagnosis)

\* clear ran on a list that repeats a code and returned several records,
\* one of them with an explanation
C9_Witness ==
    /\ JustRan("clear")
    /\ ~NoDuplicateCodes(Vykony(prev))
    /\ Len(Vykony(diagnosis)) > 1
    /\ \E i \in DOMAIN Vykony(diagnosis) : Vykony(diagnosis)[i].explanation # None

-----------------------------------------------------------------------------
(* C10 *)

\* C10: once a collaborator call has failed the run is at "failed", not at
\* the end, and takes no further step: no node is entered after the one
\* whose call failed, and that node is not entered again.
C10_AbortOnCollaboratorFailure ==
    /\ [](error = "collaborator" => pc = "failed")
    /\ [][error = "collaborator" =>
            /\ trace' = trace
            /\ pc' = pc
            /\ diagnosis' = diagnosis]_vars

\* the call of the validate node failed after preprocess and model had run
C10_Witness ==
    /\ error = "collaborator"
    /\ trace = << "preprocess", "model", "validate" >>
    /\ Vykony(diagnosis) # << >>

-----------------------------------------------------------------------------
(* C11 *)

\* no retrieved anchor reaches the threshold with a trigger code
NoPairOverThreshold ==
    \A i \in DOMAIN retrieved :
        \A p \in PivotCodes \cap DOMAIN co_occurrence_df_normalized :
            /\ retrieved[i] \in DOMAIN co_occurrence_df_normalized
            /\ ~AtLeastThreshold(strength(p, retrieved[i]))

\* C11: when the retrieval call succeeded and returned no document, or no
\* trigger/anchor pair reaches 0.6, add_co_occurrence ends the run normally
\* and diagnosis.vykony is the list it received.
C11_NothingToAddIsNormal ==
    /\ JustRan("add_co_occurrence")
    /\ error # "collaborator"
    /\ retrieved = << >> \/ NoPairOverThreshold
    => /\ pc = "__end__"
       /\ Vykony(diagnosis) = Vykony(prev)

-----------------------------------------------------------------------------
(* C12 *)

\* the index of the verdict line 328 finds for a code, 0 when there is none
MatchingVerdict(verdicts, code) ==
    IF \E k \in DOMAIN verdicts : verdicts[k].code = code
    THEN SetMin({k \in DOMAIN verdicts : verdicts[k].code = code})
    ELSE 0

\* the positions of the records whose matching verdict is not a remove
KeptPositions(vyk, verdicts) ==
    {i \in DOMAIN vyk :
        LET k == MatchingVerdict(verdicts, vyk[i].code)
        IN  k = 0 \/ verdicts[k].action # "remove"}

\* C12: after validate, diagnosis.vykony is the sub-list, in order, of the
\* records it received whose matching verdict is not a remove, each with
\* the explanation of its matching verdict if it has one; a single record
\* with a remove verdict leaves the empty list.
C12_KeepRemoveReconciliation ==
    JustRan("validate") /\ pc = Successor("validate") =>
        LET old  == Vykony(prev)
            new  == Vykony(diagnosis)
            kept == KeptPositions(old, validity.vykony)
        IN  /\ Len(new) = Cardinality(kept)
            /\ \A i \in kept :
                  LET j == Cardinality({h \in kept : h <= i})
                      k == MatchingVerdict(validity.vykony, old[i].code)
                  IN  /\ \A key \in DOMAIN old[i] \ {"explanation"} :
                            key \in DOMAIN new[j] /\ new[j][key] = old[i][key]
                      /\ k # 0 => new[j].explanation = validity.vykony[k].explanation
            /\ (Len(old) = 1 /\ old[1].code \in CodesOf(validity.vykony)
                /\ validity.vykony[MatchingVerdict(validity.vykony, old[1].code)].action
                       = "remove")
                  => new = << >>

\* validate ran on three records: it dropped the middle one on a remove
\* verdict and kept the two around it, one of them with its verdict's
\* explanation
C12_Witness ==
    /\ JustRan("validate") /\ pc = Successor("validate")
    /\ Len(Vykony(prev)) = 3
    /\ KeptPositions(Vykony(prev), validity.vykony) = {1, 3}
    /\ \E j \in DOMAIN Vykony(diagnosis) : Vykony(diagnosis)[j].explanation # None

-----------------------------------------------------------------------------
(* C13 *)

\* the positions of the records whose code the catalog holds
Resolvable(vyk) ==
    {i \in DOMAIN vyk : \E c \in DOMAIN vykony_cis : vykony_cis[c].code = vyk[i].code}

\* of these, the first and the last position of each code
FirstOfCode(vyk) ==
    {i \in Resolvable(vyk) : \A h \in Resolvable(vyk) : vyk[h].code = vyk[i].code => i <= h}
LastOfCode(vyk) ==
    {i \in Resolvable(vyk) : \A h \in Resolvable(vyk) : vyk[h].code = vyk[i].code => h <= i}
LastPositionOf(vyk, code) == SetMax({h \in Resolvable(vyk) : vyk[h].code = code})

\* C13 as stated: clear returns one record for each code the catalog
\* resolves, with the explanation of the code's last occurrence, the codes
\* in the order of their last occurrences.
C13_DedupAtLastOccurrence ==
    JustRan("clear") =>
        LET old   == Vykony(prev)
            new   == Vykony(diagnosis)
            lasts == LastOfCode(old)
        IN  /\ Len(new) = Cardinality(lasts)
            /\ \A i \in lasts :
                  LET j == Cardinality({h \in lasts : h <= i})
                  IN  /\ new[j].code = old[i].code
                      /\ new[j].explanation = Get(old[i], "explanation", None)

\* C13, amended: clear returns one record for each code the catalog
\* resolves, the catalog's record with the explanation of the code's last
\* occurrence, the codes in the order of their first occurrences.
C13_DedupAtFirstOccurrence ==
    JustRan("clear") =>
        LET old    == Vykony(prev)
            new    == Vykony(diagnosis)
            firsts == FirstOfCode(old)
        IN  /\ Len(new) = Cardinality(firsts)
            /\ \A i \in firsts :
                  LET j    == Cardinality({h \in firsts : h <= i})
                      last == old[LastPositionOf(old, old[i].code)]
                  IN  /\ new[j].code = old[i].code
                      /\ new[j].explanation = Get(last, "explanation", None)
                      /\ \E c \in DOMAIN vykony_cis :
                            /\ vykony_cis[c].code = new[j].code
                            /\ new[j].name = vykony_cis[c].name
                            /\ new[j].description = vykony_cis[c].description

\* clear ran on a list in which a resolvable code occurs before and after
\* another resolvable code, and returned the two codes
C13_Witness ==
    /\ JustRan("clear")
    /\ Len(Vykony(diagnosis)) = 2
    /\ \E i, j, k \in Resolvable(Vykony(prev)) :
          /\ i < j /\ j < k
          /\ Vykony(prev)[i].code = Vykony(prev)[k].code
          /\ Vykony(prev)[i].code # Vykony(prev)[j].code
          /\ Vykony(prev)[k].explanation # None

-----------------------------------------------------------------------------
(* C14 *)

\* C14: when clear has run, no two records of diagnosis.vykony have the
\* same code.
C14_ClearLeavesNoDuplicateCode ==
    JustRan("clear") => NoDuplicateCodes(Vykony(diagnosis))

\* clear ran on a list that repeats a resolvable code and holds a code of
\* no catalog
C14_Witness ==
    /\ JustRan("clear")
    /\ \E i, j \in Resolvable(Vykony(prev)) :
          i # j /\ Vykony(prev)[i].code = Vykony(prev)[j].code
    /\ Resolvable(Vykony(prev)) # DOMAIN Vykony(prev)
    /\ Vykony(diagnosis) # << >>

-----------------------------------------------------------------------------
(* C15 *)

\* C15: the schema the model node built has, for every code among the
\* candidates, exactly one definition and exactly one anyOf reference.
C15_OneSchemaEntryPerCode ==
    Entered("model") =>
        \A code \in CodesOf(suggested_vykony(preprocess_diagnosis)) :
            /\ Cardinality({k \in DOMAIN schema.definitions :
                               schema.definitions[k].properties.code = code}) = 1
            /\ Cardinality({i \in DOMAIN schema.code_refs :
                               schema.code_refs[i] = str(code)}) = 1

-----------------------------------------------------------------------------
(* C16 *)

\* C16: a step of add_co_occurrence leaves the list it received as a prefix
\* of diagnosis.vykony, records, order and explanations alike, and leaves
\* report, preprocess_diagnosis and validity as they are.
C16_AugmentCarriesForward ==
    [][pc = "add_co_occurrence" =>
          /\ IsPrefix(Vykony(diagnosis), Vykony(diagnosis'))
          /\ report' = report
          /\ preprocess_diagnosis' = preprocess_diagnosis
          /\ validity' = validity]_vars

\* add_co_occurrence returned a longer list than the explained record it
\* received
C16_Witness ==
    /\ pc = "__end__"
    /\ Len(Vykony(prev)) > 0
    /\ Vykony(prev)[1].explanation # None
    /\ Len(Vykony(diagnosis)) > Len(Vykony(prev))

-----------------------------------------------------------------------------
(* C18 *)

\* C18: in the loaded co-occurrence model, strength(a, a) is 0 for every
\* code a.
C18_ZeroDiagonal ==
    Loaded =>
        \A a \in DOMAIN co_occurrence_df_normalized :
            strength(a, a).num = 0 /\ strength(a, a).den > 0

\* a loaded model with a code billed twice with another code: its column
\* is scaled by a range of 2, and its diagonal cell is 0
C18_Witness ==
    /\ Loaded
    /\ \E a, b \in DOMAIN co_occurrence_df_normalized :
          /\ a # b
          /\ strength(a, a) = [num |-> 0, den |-> 2]
          /\ strength(b, a) = [num |-> 2, den |-> 2]

-----------------------------------------------------------------------------
(* C19 *)

\* C19: after validate, a code with several verdicts is decided by the
\* first of them: on a remove no record of the code is left, otherwise
\* every record of the code is kept with that verdict's explanation.
C19_FirstVerdictDecides ==
    JustRan("validate") /\ pc = Successor("validate") =>
        \A code \in CodesOf(Vykony(prev)) :
            LET ks    == {k \in DOMAIN validity.vykony : validity.vykony[k].code = code}
                first == validity.vykony[SetMin(ks)]
                left  == {j \in DOMAIN Vykony(diagnosis) : Vykony(diagnosis)[j].code = code}
            IN  Cardinality(ks) > 1 =>
                    IF first.action = "remove"
                    THEN left = {}
                    ELSE /\ Cardinality(left) = Occurrences(Vykony(prev), code)
                         /\ \A j \in left :
                               Vykony(diagnosis)[j].explanation = first.explanation

\* validate ran on a record whose code has a keep verdict followed by a
\* remove verdict with another explanation, and kept it
C19_Witness ==
    /\ JustRan("validate") /\ pc = Successor("validate")
    /\ Len(validity.vykony) = 2
    /\ validity.vykony[1].code = validity.vykony[2].code
    /\ validity.vykony[1].action = "keep"
    /\ validity.vykony[2].action = "remove"
    /\ validity.vykony[1].explanation # validity.vykony[2].explanation
    /\ validity.vykony[1].code \in CodesOf(Vykony(prev))
    /\ validity.vykony[1].code \in CodesOf(Vykony(diagnosis))

-----------------------------------------------------------------------------
(* C17: while two runs of the graph interleave, no node writes the catalogs *)
(* or the co-occurrence model they share, and the list a run ends with is   *)
(* the list the same run ends with when it is executed alone and its        *)
(* collaborators give it the same answers.                                  *)

\* the run r executed alone: its nodes in the order of the graph, each
\* handed the state the one before returned and the answer run r was given
Alone(r) ==
    LET a == answers[r]
    IN  add_co_occurrence_of(
            clear_of(
                validate_of(
                    model_of(preprocess_of(StartState(r), a.codes), a.selection),
                    a.verdicts)),
            a.docs, a.order)

Ended(r) == runs[r].pc = "__end__"

====
